---------------------------- MODULE Spec2Model ----------------------------
(***************************************************************************)
(* Model of backup/load.py: the Loader that restores an exported index     *)
(* (settings.json, mappings.json, data.json) into a cluster.               *)
(*                                                                         *)
(* The run is one coroutine (main -> Loader.__aenter__ -> start ->         *)
(* create_index_with_meta -> upload_data -> __aexit__) plus the bulk tasks *)
(* that upload_data creates with asyncio.create_task.  The event loop is   *)
(* cooperative: a task runs only while the main coroutine is suspended at  *)
(* an await, so one action of the model is the code between two awaits.    *)
(***************************************************************************)
EXTENDS Integers, Sequences, FiniteSets, TLC

\* ------------------------------------------------------------------ bounds
MaxLen == 5      \* lines in data.json
MaxChunk == 3    \* --chunk_size ranges over 1..MaxChunk
MaxLimit == 3    \* --limit ranges over None and -1..MaxLimit
MaxPool == 2     \* --connection_pool_size ranges over 1..MaxPool
MaxVal == 2      \* values of a settings key range over 1..MaxVal

\* ------------------------------------------------------------------ inputs
None == <<>>                      \* Python None (limit's default)
Limits == {None} \cup {<<l>> : l \in (-1)..MaxLimit}
ChunkSizes == 1..MaxChunk
PoolSizes == 1..MaxPool
Modes == {"data", "default"}

\* The five cluster-assigned keys popped by create_index_with_meta, in order.
StripKeys == <<"routing", "provided_name", "creation_date", "uuid", "version">>
ClusterKeys == {StripKeys[k] : k \in 1..Len(StripKeys)}
OtherKeys == {"number_of_shards", "analysis"}
SettingsKeys == ClusterKeys \cup OtherKeys

\* Every settings object over the known keys.
AllSettings == UNION {[S -> 1..MaxVal] : S \in SUBSET SettingsKeys}
FullSettings == [k \in SettingsKeys |-> 1]
\* settings.json as parsed: a dict that has the key 'index' or not.
SettingsJson(hasIndex, s) == IF hasIndex THEN [k \in {"index"} |-> s] ELSE <<>>
\* The settings documents the full run is tried on.
RunSettings ==
  { SettingsJson(TRUE, FullSettings), SettingsJson(FALSE, FullSettings) }
  \cup { SettingsJson(TRUE, [k \in SettingsKeys \ {missing} |-> 1]) :
          missing \in ClusterKeys }

\* One line of data.json.  json: the line is valid JSON; keys: the top-level
\* keys it has; id: the value of _id; src: the value of _source.
Line(json, keys, n) == [json |-> json, keys |-> keys, id |-> n, src |-> n]
GoodLine(n) == Line(TRUE, {"_id", "_source", "_score"}, n)
BadLines(n) ==
  { Line(FALSE, {}, n),
    Line(TRUE, {"_source"}, n),
    Line(TRUE, {"_id"}, n) }
\* data.json: well-formed files of every length up to MaxLen, and files with
\* one malformed line at any position (the loop never looks past the first one).
GoodData(n) == [k \in 1..n |-> GoodLine(k)]
DataFiles ==
  {GoodData(n) : n \in 0..MaxLen}
  \cup UNION {{[GoodData(n) EXCEPT ![b] = bad] : bad \in BadLines(b)} :
              <<n, b>> \in {p \in (1..MaxLen) \X (1..MaxLen) : p[2] <= p[1]}}

VARIABLES
  mode, chunk_size, limit, connection_pool_size,  \* Loader.__init__ arguments
  settings_json,   \* parsed content of settings.json
  data,            \* lines of data.json
  reachable,       \* the cluster at elastic_address answers requests
  pc,              \* where the main coroutine is
  conns,           \* connections of es.transport
  es_open,         \* the client is open (created, not closed)
  index_create,    \* outcome of es.indices.create
  body,            \* body of the create call
  heap,            \* Python list objects, by reference
  actions,         \* upload_data.actions: a reference into heap (0: unbound)
  inserts,         \* upload_data.inserts: the created tasks
  i,               \* upload_data.i
  log,             \* lines written by self.logger
  raised,          \* exception propagating out of the main coroutine
  exit_status      \* process exit status

config == <<mode, chunk_size, limit, connection_pool_size, settings_json, data,
            reachable>>
vars == <<mode, chunk_size, limit, connection_pool_size, settings_json, data,
          reachable,
          pc, conns, es_open, index_create, body, heap, actions, inserts, i,
          log, raised, exit_status>>

NoBody == <<>>
LogLine(msg, n) == [msg |-> msg, n |-> n]

\* ------------------------------------------------------------ pure helpers
\* Several helpers below come in pairs: the code's form, preceded by the form
\* a plausible slip would give it (pop with a default, a clear() that keeps the
\* list, a flush without its test, a wait that returns early or re-raises, a
\* start without its mode test, a batch passed without deepcopy, a task
\* created only when a connection is free).  The properties are also run against the
\* slipped forms, where they must fail.

\* dict.pop(key) without a default: KeyError when the key is absent.
\* (PopDefault: dict.pop(key, None).)
PopDefault(s, key) ==
  [raised |-> "none", value |-> [k \in DOMAIN s \ {key} |-> s[k]]]
Pop(s, key) ==
  IF key \in DOMAIN s
    THEN [raised |-> "none", value |-> [k \in DOMAIN s \ {key} |-> s[k]]]
    ELSE [raised |-> "KeyError", value |-> s]

\* The five settings.pop(...) calls of create_index_with_meta, in order,
\* stopping at the first KeyError.
RECURSIVE PopAll(_, _)
PopAll(s, keys) ==
  IF keys = <<>> THEN [raised |-> "none", value |-> s]
  ELSE LET r == Pop(s, Head(keys))
       IN IF r.raised # "none" THEN r ELSE PopAll(r.value, Tail(keys))
Strip(s) == PopAll(s, StripKeys)

\* ujson.loads(settings)['index']
IndexOf(doc) ==
  IF "index" \in DOMAIN doc
    THEN [raised |-> "none", value |-> doc["index"]]
    ELSE [raised |-> "KeyError", value |-> <<>>]

\* The exceptions of the data path: ujson.loads on a line that is not JSON,
\* obj['_id'] / obj['_source'] on a missing key, asyncio.wait on an empty list.
JsonError == "ValueError: Expected object or value"
FieldError == "KeyError: '_id' or '_source'"
EmptyWaitError == "ValueError: Set of coroutines/Futures is empty."

\* ujson.loads(line) followed by the dict literal of line 83.
ParseLine(ln, index) ==
  IF ~ln.json THEN [raised |-> JsonError, value |-> <<>>]
  ELSE IF "_id" \notin ln.keys \/ "_source" \notin ln.keys
    THEN [raised |-> FieldError, value |-> <<>>]
  ELSE [raised |-> "none",
        value |-> [_index |-> index, _id |-> ToString(ln.id), _source |-> ln.src]]

IndexName == "idx"

\* Python truthiness of self.limit, and the break test of line 84.
Truthy(lim) == lim # None /\ lim[1] # 0
LimitReached(lim, n) == Truthy(lim) /\ n >= lim[1]
\* not i % self.chunk_size
ChunkFull(n, cs) == n % cs = 0
\* actions.clear()
KeepList(l) == l
ClearList(l) == <<>>
\* if actions:
NonEmptyAlways(l) == TRUE
NonEmpty(l) == l # <<>>

\* deepcopy(actions): a new list object, placed after the objects of h, with
\* the content the list at ref has now.  (AliasRef: actions itself is passed.)
AliasRef(h, ref) == ref
DeepCopyRef(h, ref) == Len(h) + 1

\* asyncio.create_task returns at once: the loop awaits neither an earlier
\* task nor a free connection before it schedules the next batch.
\* (CreateTaskPooled: a task is created only while a connection is free.)
CreateTaskPooled(ts, pool) ==
  Cardinality({k \in 1..Len(ts) : ts[k].state = "pending"}) < pool
CreateTaskReady(ts, pool) == TRUE

\* asyncio.create_task(async_bulk(self.es, deepcopy(actions))): the task holds
\* a reference to the list it was given.
NewTask(ref) == [ref |-> ref, state |-> "pending", sent |-> <<>>]
Settled(t) == t.state \in {"ok", "failed", "cancelled"}
\* asyncio.wait(inserts) with the default return_when=ALL_COMPLETED.
AnySettled(ts) == \E k \in 1..Len(ts) : Settled(ts[k])
AllSettled(ts) == \A k \in 1..Len(ts) : Settled(ts[k])
\* asyncio.wait never re-raises a task's exception.
WaitRaisesOnFailure(ts) ==
  IF \E k \in 1..Len(ts) : ts[k].state = "failed" THEN "TransportError" ELSE "none"
WaitRaises(ts) == "none"

\* The ends a request through self.es can come to: a response when the
\* cluster is reachable, an exception of the client in any case.
ClientOutcomes(up, responses, fault) == IF up THEN responses \cup {fault} ELSE {fault}

\* Loader.start: if self.mode == 'default'
NeedsIndexAlways(m) == TRUE
NeedsIndex(m) == m = "default"

\* ------------------------------------------------------------------- Init
Init ==
  /\ mode \in Modes
  /\ chunk_size \in ChunkSizes
  /\ limit \in Limits
  /\ connection_pool_size \in PoolSizes
  /\ settings_json \in (IF mode = "default" THEN RunSettings
                        ELSE {SettingsJson(TRUE, FullSettings)})
  /\ data \in DataFiles
  /\ reachable \in BOOLEAN
  /\ pc = "main"
  /\ conns = 0
  /\ es_open = FALSE
  /\ index_create = "none"
  /\ body = NoBody
  /\ heap = <<>>
  /\ actions = 0
  /\ inserts = <<>>
  /\ i = 0
  /\ log = <<>>
  /\ raised = "none"
  /\ exit_status = "running"

\* ---------------------------------------------------------------- actions
\* Loader.__aenter__: the client and connection_pool_size - 1 added connections.
AEnter ==
  /\ pc = "main"
  /\ conns' = 1 + (IF connection_pool_size > 1 THEN connection_pool_size - 1 ELSE 0)
  /\ es_open' = TRUE
  /\ pc' = "start"
  /\ UNCHANGED <<config, index_create, body, heap, actions, inserts, i, log,
                 raised, exit_status>>

\* Loader.start, mode 'data': straight to upload_data.
StartData ==
  /\ pc = "start"
  /\ ~NeedsIndex(mode)
  /\ pc' = "upload"
  /\ UNCHANGED <<config, conns, es_open, index_create, body, heap, actions,
                 inserts, i, log, raised, exit_status>>

\* create_index_with_meta fails before the create call: settings.json lacks
\* 'index' or one of the five keys.
CreateIndexMalformed ==
  /\ pc = "start"
  /\ NeedsIndex(mode)
  /\ LET ix == IndexOf(settings_json)
     IN \/ ix.raised # "none"
        \/ ix.raised = "none" /\ Strip(ix.value).raised # "none"
  /\ raised' = "KeyError"
  /\ pc' = "aexit"
  /\ UNCHANGED <<config, conns, es_open, index_create, body, heap, actions,
                 inserts, i, log, exit_status>>

\* create_index_with_meta issues the create call; the cluster acknowledges it,
\* answers without acknowledging, or the client raises (the cluster rejects
\* the request, or it cannot be reached).
CreateIndex(outcome) ==
  /\ pc = "start"
  /\ NeedsIndex(mode)
  /\ outcome \in ClientOutcomes(reachable, {"acknowledged", "unacknowledged"}, "raised")
  /\ IndexOf(settings_json).raised = "none"
  /\ LET st == Strip(IndexOf(settings_json).value)
     IN /\ st.raised = "none"
        /\ body' = [settings |-> st.value, mappings |-> "mappings"]
  /\ index_create' = outcome
  /\ IF outcome = "raised"
       THEN /\ raised' = (IF reachable THEN "RequestError" ELSE "ConnectionError")
            /\ pc' = "aexit"
            /\ log' = log
       ELSE /\ raised' = raised
            /\ pc' = "upload"
            /\ log' = Append(log,
                 LogLine(IF outcome = "acknowledged"
                           THEN "Index created sucessfully!"
                           ELSE "Index creation failed!", 0))
  /\ UNCHANGED <<config, conns, es_open, heap, actions, inserts, i, exit_status>>

\* upload_data up to the first line read: inserts = [], the file is opened,
\* actions, i = [], 0.
OpenFile ==
  /\ pc = "upload"
  /\ inserts' = <<>>
  /\ heap' = << <<>> >>
  /\ actions' = 1
  /\ i' = 0
  /\ pc' = "read"
  /\ UNCHANGED <<config, conns, es_open, index_create, body, log, raised,
                 exit_status>>

\* One iteration of the async for loop, lines 80-89.
ReadLine ==
  /\ pc = "read"
  /\ i < Len(data)
  /\ i' = i + 1
  /\ LET p == ParseLine(data[i + 1], IndexName)
         appended == Append(heap[actions], p.value)
     IN IF p.raised # "none"
          THEN /\ raised' = p.raised
               /\ pc' = "aexit"
               /\ UNCHANGED <<heap, inserts, log>>
        ELSE IF LimitReached(limit, i + 1)
          THEN /\ heap' = [heap EXCEPT ![actions] = appended]
               /\ pc' = "flush"
               /\ UNCHANGED <<inserts, log, raised>>
        ELSE IF ChunkFull(i + 1, chunk_size)
          THEN /\ CreateTaskReady(inserts, conns)
               /\ heap' = Append([heap EXCEPT ![actions] = ClearList(appended)],
                                 appended)
               /\ inserts' = Append(inserts, NewTask(DeepCopyRef(heap, actions)))
               /\ log' = Append(log, LogLine("documents loaded", i + 1))
               /\ UNCHANGED <<pc, raised>>
        ELSE /\ heap' = [heap EXCEPT ![actions] = appended]
             /\ UNCHANGED <<pc, inserts, log, raised>>
  /\ UNCHANGED <<config, conns, es_open, index_create, body, actions, exit_status>>

\* The iterator is exhausted; the file is closed.
EndOfFile ==
  /\ pc = "read"
  /\ i = Len(data)
  /\ pc' = "flush"
  /\ UNCHANGED <<config, conns, es_open, index_create, body, heap, actions,
                 inserts, i, log, raised, exit_status>>

\* Lines 90-92: the final batch, then asyncio.wait(inserts) is entered;
\* asyncio.wait raises ValueError on an empty list.
Flush ==
  /\ pc = "flush"
  /\ LET last == heap[actions]
         ins == IF NonEmpty(last)
                  THEN Append(inserts, NewTask(DeepCopyRef(heap, actions)))
                  ELSE inserts
     IN /\ NonEmpty(last) => CreateTaskReady(inserts, conns)
        /\ heap' = IF NonEmpty(last) THEN Append(heap, last) ELSE heap
        /\ inserts' = ins
        /\ IF ins = <<>>
             THEN raised' = EmptyWaitError /\ pc' = "aexit"
             ELSE raised' = raised /\ pc' = "wait"
  /\ UNCHANGED <<config, conns, es_open, index_create, body, actions, i, log,
                 exit_status>>

\* A bulk task runs while the main coroutine is suspended: it sends the list
\* it refers to and ends with a response or with a transport fault.
TaskRun(k, outcome) ==
  /\ pc \in {"read", "flush", "wait", "aexit"}
  /\ outcome \in ClientOutcomes(reachable, {"ok"}, "failed")
  /\ k \in 1..Len(inserts)
  /\ inserts[k].state = "pending"
  /\ inserts' = [inserts EXCEPT ![k] =
                   [inserts[k] EXCEPT !.state = outcome,
                                      !.sent = heap[inserts[k].ref]]]
  /\ UNCHANGED <<config, pc, conns, es_open, index_create, body, heap, actions,
                 i, log, raised, exit_status>>

\* asyncio.wait returns; line 93; upload_data and start return.
WaitDone ==
  /\ pc = "wait"
  /\ AllSettled(inserts)
  /\ IF WaitRaises(inserts) # "none"
       THEN raised' = WaitRaises(inserts) /\ log' = log
       ELSE raised' = raised /\ log' = Append(log, LogLine("Data upload finished!", 0))
  /\ pc' = "aexit"
  /\ UNCHANGED <<config, conns, es_open, index_create, body, heap, actions,
                 inserts, i, exit_status>>

\* Loader.__aexit__: await self.es.close().
AExit ==
  /\ pc = "aexit"
  /\ es_open' = FALSE
  /\ pc' = "closed"
  /\ UNCHANGED <<config, conns, index_create, body, heap, actions, inserts, i,
                 log, raised, exit_status>>

\* asyncio.run(main(args)) ends: tasks still pending are cancelled, and the
\* process exits 0, or 1 with the traceback of the propagated exception.
Exit ==
  /\ pc = "closed"
  /\ inserts' = [k \in 1..Len(inserts) |->
                   IF inserts[k].state = "pending"
                     THEN [inserts[k] EXCEPT !.state = "cancelled"]
                     ELSE inserts[k]]
  /\ exit_status' = IF raised = "none" THEN "0" ELSE "1"
  /\ pc' = "exited"
  /\ UNCHANGED <<config, conns, es_open, index_create, body, heap, actions, i,
                 log, raised>>

Next ==
  \/ AEnter
  \/ StartData
  \/ CreateIndexMalformed
  \/ \E o \in {"acknowledged", "unacknowledged", "raised"} : CreateIndex(o)
  \/ OpenFile
  \/ ReadLine
  \/ EndOfFile
  \/ Flush
  \/ \E k \in 1..MaxLen, o \in {"ok", "failed"} : TaskRun(k, o)
  \/ WaitDone
  \/ AExit
  \/ Exit

Spec == Init /\ [][Next]_vars


\* ------------------------------------------------- the strip, on its own
\* Lines 63-68 applied to every settings object, and applied once more to
\* what they produced.
InitStrip ==
  /\ mode = "default"
  /\ chunk_size = 1
  /\ limit = None
  /\ connection_pool_size = 1
  /\ settings_json \in {SettingsJson(TRUE, s) : s \in AllSettings}
  /\ data = <<>>
  /\ reachable = TRUE
  /\ pc = "strip"
  /\ conns = 0
  /\ es_open = FALSE
  /\ index_create = "none"
  /\ body = NoBody
  /\ heap = <<>>
  /\ actions = 0
  /\ inserts = <<>>
  /\ i = 0
  /\ log = <<>>
  /\ raised = "none"
  /\ exit_status = "running"

StripSettings ==
  /\ pc = "strip"
  /\ LET st == Strip(IndexOf(settings_json).value)
     IN /\ raised' = st.raised
        /\ body' = [settings |-> st.value, mappings |-> "mappings"]
  /\ pc' = "stripped"
  /\ UNCHANGED <<config, conns, es_open, index_create, heap, actions, inserts,
                 i, log, exit_status>>

StripAgain ==
  /\ pc = "stripped"
  /\ raised = "none"
  /\ LET st == Strip(body.settings)
     IN /\ raised' = st.raised
        /\ body' = [body EXCEPT !.settings = st.value]
  /\ pc' = "restripped"
  /\ UNCHANGED <<config, conns, es_open, index_create, heap, actions, inserts,
                 i, log, exit_status>>

NextStrip == StripSettings \/ StripAgain

SpecStrip == InitStrip /\ [][NextStrip]_vars

\* ------------------------------------------------ what the claims speak of
RECURSIVE Concat(_)
Concat(ss) == IF ss = <<>> THEN <<>> ELSE Head(ss) \o Concat(Tail(ss))

\* The list each task was created with, in the order the tasks were created.
Batches == [k \in 1..Len(inserts) |-> heap[inserts[k].ref]]
\* The records of the first n lines of data.json, in file order.
ReadRecords(n) == [k \in 1..n |-> ParseLine(data[k], IndexName).value]
AllGood(d) == \A k \in 1..Len(d) : ParseLine(d[k], IndexName).raised = "none"
ParseFailed == raised \in {JsonError, FieldError}
Logged(msg) == \E k \in 1..Len(log) : log[k].msg = msg
Finished == Logged("Data upload finished!")
Ended == pc \in {"aexit", "closed", "exited"}
\* upload_data got past its final flush (lines 90-91).
Flushed == pc = "wait" \/ (Ended /\ actions # 0 /\ raised \in {"none", EmptyWaitError})
NumIn(st) == Cardinality({k \in 1..Len(inserts) : inserts[k].state = st})

\* ------------------------------------------------------------------ claims

\* C1: every record read lands in exactly one submitted batch, and the batches
\* concatenated in the order they were submitted are the records read, in read
\* order.  While the loop runs, the submitted batches followed by the buffer
\* are the records read so far; once the final flush is done the submitted
\* batches alone are all the records read.
C1_BatchesAreTheRecordsRead ==
  /\ pc \in {"read", "flush"} =>
       Concat(Batches) \o heap[actions] = ReadRecords(i)
  /\ Flushed => Concat(Batches) = ReadRecords(i)

C1_Witness ==
  /\ pc = "exited"
  /\ raised = "none"
  /\ limit = None
  /\ chunk_size = 2
  /\ i = 5
  /\ Len(inserts) = 3

\* C2: every submitted batch has exactly chunk_size records, except possibly
\* the last one submitted, which has between 1 and chunk_size; no empty batch
\* is ever submitted.  With and without a limit.
C2_BatchSizes ==
  \A k \in 1..Len(inserts) :
    /\ Len(Batches[k]) >= 1
    /\ Len(Batches[k]) <= chunk_size
    /\ (k < Len(inserts) \/ ~Flushed) => Len(Batches[k]) = chunk_size

C2_Witness ==
  /\ pc = "exited"
  /\ limit = <<3>>
  /\ chunk_size = 2
  /\ Len(data) = 5
  /\ Len(inserts) = 2
  /\ Len(Batches[1]) = 2
  /\ Len(Batches[2]) = 1

\* C3: with a limit L set and more than L well-formed lines in the file,
\* exactly L records are read and submitted, the last of them in a final
\* batch that may be partial.
C3_LimitReadsExactlyL ==
  (/\ Flushed
   /\ reachable
   /\ limit # None
   /\ limit[1] >= 0
   /\ AllGood(data)
   /\ Len(data) > limit[1])
  => /\ i = limit[1]
     /\ Concat(Batches) = ReadRecords(limit[1])

\* The part of C3 the code keeps: for every limit L >= 1.
C3_PositiveLimitReadsExactlyL ==
  (/\ Flushed
   /\ limit # None
   /\ limit[1] >= 1
   /\ AllGood(data)
   /\ Len(data) > limit[1])
  => /\ i = limit[1]
     /\ Concat(Batches) = ReadRecords(limit[1])
     /\ inserts # <<>>
     /\ Len(Batches[Len(inserts)]) = ((limit[1] - 1) % chunk_size) + 1

\* C4: the completion line is never logged, and upload_data never returns,
\* while a task it created is unsettled: once the run reports completion every
\* task has ended with a response or a fault.
C4_FinishedOnlyWhenAllSettled ==
  (Finished \/ (Ended /\ actions # 0 /\ raised = "none"))
  => \A k \in 1..Len(inserts) : inserts[k].state \in {"ok", "failed"}

C4_Witness ==
  /\ pc = "aexit"
  /\ Finished
  /\ Len(inserts) = 3
  /\ inserts[1].state = "failed"
  /\ inserts[3].state = "ok"

\* C5: a transport fault in one bulk task cancels no other task, keeps no
\* later batch from being scheduled, and the run still logs completion and
\* exits 0.
C5_TransportFaultNotFatal ==
  (/\ pc = "exited"
   /\ AllGood(data)
   /\ NumIn("failed") >= 1)
  => /\ exit_status = "0"
     /\ raised = "none"
     /\ Finished
     /\ NumIn("cancelled") = 0
     /\ NumIn("ok") + NumIn("failed") = Len(inserts)
     /\ Concat(Batches) = ReadRecords(i)
     /\ (~Truthy(limit) => i = Len(data))
     /\ (Truthy(limit) /\ limit[1] >= 1 /\ Len(data) >= limit[1] => i = limit[1])

C5_Witness ==
  /\ pc = "exited"
  /\ exit_status = "0"
  /\ Len(inserts) = 3
  /\ inserts[1].state = "failed"
  /\ inserts[2].state = "ok"
  /\ inserts[3].state = "ok"
  /\ Finished

\* C6: at the end of the run a summary reports how many batches succeeded and
\* how many failed, and the counts are the tasks' outcomes: some line of the
\* output other than a progress line carries the number of failed batches,
\* and one the number of succeeded batches.
C6_SummaryReportsCounts ==
  (/\ pc = "exited"
   /\ exit_status = "0"
   /\ Len(inserts) >= 2
   /\ NumIn("failed") = 1)
  => /\ \E k \in 1..Len(log) :
          log[k].msg # "documents loaded" /\ log[k].n = NumIn("failed")
     /\ \E k \in 1..Len(log) :
          log[k].msg # "documents loaded" /\ log[k].n = NumIn("ok")

\* C7: after a malformed data line no later line is read, no further batch is
\* scheduled, the run ends with a non-zero status, and every task scheduled
\* before the bad line has been awaited to its end (none cancelled, none left
\* pending) by the time the run terminates.
C7_ParseErrorAwaitsScheduled ==
  (ParseFailed /\ reachable) =>
    /\ ~AllGood(SubSeq(data, 1, i))
    /\ AllGood(SubSeq(data, 1, i - 1))
    /\ Len(inserts) = (i - 1) \div chunk_size
    /\ (pc = "exited" =>
          /\ exit_status = "1"
          /\ \A k \in 1..Len(inserts) : inserts[k].state \in {"ok", "failed"})

\* The part of C7 the code keeps: the loop stops at the bad line, nothing more
\* is scheduled, and the status is non-zero.
C7_ParseErrorStopsTheLoop ==
  ParseFailed =>
    /\ ~AllGood(SubSeq(data, 1, i))
    /\ AllGood(SubSeq(data, 1, i - 1))
    /\ Len(inserts) = (i - 1) \div chunk_size
    /\ ~Finished
    /\ (pc = "exited" => exit_status = "1")

UploadEntered == pc \in {"upload", "read", "flush", "wait"} \/ actions # 0
IndexLogged == Logged("Index created sucessfully!") \/ Logged("Index creation failed!")

\* C8: in mode 'data' create_index_with_meta never runs (no create call, no
\* index line in the log) and upload_data does; in mode 'default' the create
\* call has completed before upload_data opens the file, reads a record or
\* submits a batch, and upload_data follows whenever the index step returns.
C8_ModeOrdersIndexAndUpload ==
  /\ mode = "data" =>
       /\ index_create = "none"
       /\ body = NoBody
       /\ ~IndexLogged
       /\ (Ended => UploadEntered)
  /\ mode = "default" =>
       /\ (UploadEntered =>
             /\ index_create \in {"acknowledged", "unacknowledged"}
             /\ IndexLogged
             /\ body # NoBody)
       /\ (~UploadEntered => i = 0 /\ inserts = <<>>)
       /\ (Ended /\ index_create \in {"acknowledged", "unacknowledged"}
             => UploadEntered)

C8_Witness ==
  /\ mode = "default"
  /\ index_create = "acknowledged"
  /\ pc = "read"
  /\ i = 2
  /\ Len(inserts) = 2

\* C9: in mode 'default', when the cluster rejects the create call (the client
\* raises, as for an index that already exists or a rejected mapping, or the
\* response is not acknowledged), the failure is logged and is not fatal: the
\* run goes on to upload_data and every batch is submitted.
C9_RejectedCreateNotFatal ==
  (/\ mode = "default"
   /\ reachable
   /\ index_create \in {"unacknowledged", "raised"}
   /\ pc = "exited"
   /\ AllGood(data)
   /\ data # <<>>)
  => /\ Logged("Index creation failed!")
     /\ UploadEntered
     /\ inserts # <<>>
     /\ Concat(Batches) = ReadRecords(i)
     /\ exit_status = "0"

\* The part of C9 the code keeps: a response that is not acknowledged.
C9_UnacknowledgedCreateNotFatal ==
  (/\ mode = "default"
   /\ index_create = "unacknowledged"
   /\ pc = "exited"
   /\ AllGood(data)
   /\ data # <<>>)
  => /\ Logged("Index creation failed!")
     /\ UploadEntered
     /\ inserts # <<>>
     /\ Concat(Batches) = ReadRecords(i)
     /\ exit_status = "0"

\* C10: the strip is idempotent: applied to a settings object that has been
\* stripped it succeeds and leaves the object unchanged.
C10_StripIdempotent ==
  (pc = "stripped" /\ raised = "none")
  => /\ Strip(body.settings).raised = "none"
     /\ Strip(body.settings).value = body.settings

\* C10 as amended: the strip succeeds exactly on the settings objects that
\* have all five cluster keys, removes those five and keeps every other key
\* with its value; applied again to its own result it raises KeyError and
\* changes nothing.
C10_StripOnceThenKeyError ==
  LET s == IndexOf(settings_json).value
  IN /\ pc = "strip" =>
          /\ (Strip(s).raised = "none") <=> (ClusterKeys \subseteq DOMAIN s)
          /\ Strip(s).raised = "none" =>
               /\ DOMAIN Strip(s).value = DOMAIN s \ ClusterKeys
               /\ \A k \in DOMAIN Strip(s).value : Strip(s).value[k] = s[k]
     /\ (pc = "stripped" /\ raised = "none") =>
          /\ body.settings = Strip(s).value
          /\ Strip(body.settings).raised = "KeyError"
          /\ Strip(body.settings).value = body.settings
     /\ pc = "restripped" =>
          /\ raised = "KeyError"
          /\ body.settings = Strip(s).value

C10_Witness ==
  /\ pc = "restripped"
  /\ raised = "KeyError"
  /\ DOMAIN body.settings = OtherKeys

\* C11: in mode 'default', when settings.json lacks 'index' or one of the five
\* cluster keys, the run aborts with a fatal error before the create call is
\* issued and before any data record is read or any batch is submitted.
SettingsMalformed ==
  \/ IndexOf(settings_json).raised # "none"
  \/ ~(ClusterKeys \subseteq DOMAIN IndexOf(settings_json).value)

C11_MalformedSettingsAbortFirst ==
  (mode = "default" /\ SettingsMalformed) =>
    /\ index_create = "none"
    /\ body = NoBody
    /\ ~UploadEntered
    /\ i = 0
    /\ inserts = <<>>
    /\ log = <<>>
    /\ (pc \notin {"main", "start"} => raised = "KeyError")
    /\ (pc = "exited" => exit_status = "1")

C11_Witness ==
  /\ mode = "default"
  /\ "version" \notin DOMAIN IndexOf(settings_json).value
  /\ "index" \in DOMAIN settings_json
  /\ data # <<>>
  /\ pc = "exited"
  /\ exit_status = "1"

\* C12: when the cluster cannot be reached as the connection pool is set up,
\* the run fails at startup, in both modes: before the create call is issued,
\* before any data record is read, before any bulk submission is scheduled.
C12_UnreachableFailsAtStartup ==
  ~reachable =>
    /\ index_create = "none"
    /\ body = NoBody
    /\ i = 0
    /\ inserts = <<>>
    /\ (pc = "exited" => exit_status = "1")

\* What the code does instead in mode 'data': nothing is sent before the first
\* bulk task, so an unreachable cluster shows only as failed tasks.
C12_UnreachableDataModeFailsEveryTask ==
  (~reachable /\ mode = "data") =>
    /\ \A k \in 1..Len(inserts) : inserts[k].state # "ok"
    /\ (pc = "exited" /\ AllGood(data) /\ data # <<>> =>
          exit_status = "0" /\ Finished /\ NumIn("failed") + NumIn("ok") = Len(inserts))

\* ------------------------------------------------------------- fairness
\* The event loop runs every coroutine that is ready: the main coroutine takes
\* its next step, and every bulk task that has been created gets to run.
MainStep ==
  \/ AEnter
  \/ StartData
  \/ CreateIndexMalformed
  \/ \E o \in {"acknowledged", "unacknowledged", "raised"} : CreateIndex(o)
  \/ OpenFile
  \/ ReadLine
  \/ EndOfFile
  \/ Flush
  \/ WaitDone
  \/ AExit
  \/ Exit
TaskStep(k) == \E o \in {"ok", "failed"} : TaskRun(k, o)
Fairness == WF_vars(MainStep) /\ \A k \in 1..MaxLen : WF_vars(TaskStep(k))
FairSpec == Init /\ [][Next]_vars /\ Fairness

\* C13: for a well-formed stream, when every scheduled submission eventually
\* settles, the run eventually reports completion, whatever the order in which
\* the submissions in flight complete.
C13_WellFormedStreamCompletes ==
  (pc = "upload" /\ AllGood(data) /\ reachable) ~> Finished

\* The part of C13 the code keeps: a well-formed stream of at least one line.
C13_NonEmptyStreamCompletes ==
  (pc = "upload" /\ AllGood(data) /\ data # <<>>) ~> Finished

\* The records read so far: the lines consumed, less the one that failed.
NRead == IF ParseFailed THEN i - 1 ELSE i
Min(a, b) == IF a <= b THEN a ELSE b
\* The records the k-th scheduled batch was given: the next chunk_size records
\* in read order, or what was left at the final flush.
Scheduled(k) ==
  SubSeq(ReadRecords(NRead), (k - 1) * chunk_size + 1, Min(k * chunk_size, NRead))

\* C14: each task works on a snapshot taken when it was scheduled: whenever it
\* runs, what it sends is the buffer as it was at scheduling time, whatever the
\* read loop has cleared or appended since.
C14_TaskSendsItsSnapshot ==
  \A k \in 1..Len(inserts) :
    /\ inserts[k].state \in {"ok", "failed"} => inserts[k].sent = Scheduled(k)
    /\ inserts[k].ref # actions
    /\ heap[inserts[k].ref] = Scheduled(k)

C14_Witness ==
  /\ pc = "read"
  /\ chunk_size = 2
  /\ i = 5
  /\ Len(inserts) = 2
  /\ inserts[1].state = "pending"
  /\ inserts[2].state = "ok"
  /\ inserts[2].sent = Scheduled(2)
  /\ heap[actions] # <<>>
  /\ heap[actions] # inserts[2].sent

\* C15: the read loop never waits for a submission: the next line can be read
\* and the next batch scheduled whatever the state of the earlier tasks, so the
\* number of submissions in flight is not capped by connection_pool_size (the
\* witness is a state with five in flight over a pool of two).
C15_LoopNeverWaits ==
  /\ (pc = "read" /\ i < Len(data)) => ENABLED ReadLine
  /\ (pc = "read" /\ i = Len(data)) => ENABLED EndOfFile
  /\ pc = "flush" => ENABLED Flush

C15_Witness ==
  /\ connection_pool_size = 2
  /\ conns = 2
  /\ Len(inserts) = 5
  /\ NumIn("pending") = 5
  /\ pc = "wait"

IsProgress(l) == l.msg = "documents loaded"
IsFinished(l) == l.msg = "Data upload finished!"
\* The counts of the progress lines, in the order they were logged.
ProgressCounts ==
  LET ps == SelectSeq(log, IsProgress) IN [k \in 1..Len(ps) |-> ps[k].n]
Multiples(n) == [k \in 1..(n \div chunk_size) |-> k * chunk_size]
OneFinishedLineLast ==
  /\ Len(SelectSeq(log, IsFinished)) = 1
  /\ IsFinished(log[Len(log)])

\* C16: a progress line with the count k*chunk_size is logged for every
\* positive multiple k*chunk_size up to the number of records read, with or
\* without a limit, and exactly one completion line is logged, after all of
\* them.
C16_ProgressLineForEveryChunk ==
  (/\ pc = "exited" /\ exit_status = "0"
   /\ reachable /\ AllGood(data)
   /\ (limit = None \/ limit[1] >= 1)) =>
    /\ ProgressCounts = Multiples(i)
    /\ OneFinishedLineLast

\* The part of C16 the code keeps: the multiple at which the limit stops the
\* loop gets no progress line; every multiple before it does.
C16_ProgressLineForEveryChunkButTheLimit ==
  (pc = "exited" /\ exit_status = "0") =>
    /\ ProgressCounts = Multiples(IF LimitReached(limit, i) THEN i - 1 ELSE i)
    /\ OneFinishedLineLast

\* C17: when no record is read (an empty data.json) no batch is submitted and
\* the run ends normally: it logs the completion line and raises nothing.
C17_EmptyStreamCompletes ==
  (pc = "exited" /\ actions # 0 /\ data = <<>> /\ reachable) =>
    /\ inserts = <<>>
    /\ raised = "none"
    /\ Finished
    /\ exit_status = "0"

\* What the code does on an empty data.json.
C17_EmptyStreamRaises ==
  (Ended /\ actions # 0 /\ data = <<>>) =>
    /\ inserts = <<>>
    /\ raised = EmptyWaitError
    /\ ~Finished
    /\ (pc = "exited" => exit_status = "1")

\* C18: the client is never closed while a bulk submission is in flight: on
\* every way out of the Loader context, __aexit__ closes it only after every
\* scheduled task has settled.
C18_ClosedOnlyWhenAllSettled ==
  (pc \in {"closed", "exited"} /\ ~es_open /\ reachable) =>
    \A k \in 1..Len(inserts) : inserts[k].state \in {"ok", "failed"}

\* The part of C18 the code keeps: the way out by a normal return of start().
C18_ClosedAfterNormalReturnWhenAllSettled ==
  (pc \in {"closed", "exited"} /\ ~es_open /\ raised = "none") =>
    \A k \in 1..Len(inserts) : inserts[k].state \in {"ok", "failed"}
=============================================================================
